---- MODULE Spec2Model ----
(***************************************************************************)
(* redis-lite: the shared store (src/src/db.rs), the command layer         *)
(* (src/src/commands.rs), the RESP codec (src/src/resp.rs) and the         *)
(* connection loop (src/src/main.rs).                                      *)
(*                                                                         *)
(* A Rust String / byte buffer is a sequence of one-character strings, so  *)
(* that formatting and parsing are computed byte by byte.  Option<T> is a  *)
(* sequence of length 0 (None) or 1 (Some).  An Instant is a natural       *)
(* number of clock ticks; a Duration of n milliseconds is n ticks.         *)
(***************************************************************************)
EXTENDS Integers, Sequences, FiniteSets, TLC

VARIABLES
    kv,       \* DbState.kv: key -> [val, exp]   (db.rs:8)
    now,      \* the monotonic clock read by Instant::now()
    last,     \* history: the last command executed, the store before it, its reply
    hist,     \* history per key: the last SET .. PX and the RPUSH values since
    lock,     \* owner of the store Mutex (db.rs:21), None when free
    task,     \* store-call tasks: position inside one Db method, locals, result
    lin,      \* history: the store calls in the order they took the lock
    conn,     \* per connection: position in process_socket, buffer, pending reply
    net,      \* per connection: bytes in flight to the server, replies written
    sent,     \* history per connection: the frames or messages the client sent
    done,     \* history per connection: what each executed frame was and replied
    main,     \* the task of main(): its position in the accept loop
    pin       \* codec and validation runs: the input of the run and its outcome

storeVars == <<kv, now>>
histVars  == <<last, hist>>
lockVars  == <<lock, task, lin>>
connVars  == <<conn, net, sent, done, main>>
vars == <<kv, now, last, hist, lock, task, lin, conn, net, sent, done, main, pin>>

-----------------------------------------------------------------------------
(* Bounds of the model. *)
MaxTime == 2      \* the clock runs 0..MaxTime
MaxMs   == 1      \* PX arguments 0..MaxMs
MaxList == 2      \* lists grow to at most MaxList elements
MaxPush == 2      \* values per RPUSH / LPUSH call
MaxIdx  == 2      \* LRANGE indices in -MaxIdx..MaxIdx

-----------------------------------------------------------------------------
(* Option<T> *)
None == <<>>
Some(x) == <<x>>
IsSome(o) == o # <<>>
Unwrap(o) == o[1]

Min(a, b) == IF a < b THEN a ELSE b
Max(a, b) == IF a > b THEN a ELSE b

-----------------------------------------------------------------------------
(* db.rs: DataType and the entry (DataType, Option<Instant>) *)
StringT(s) == [s |-> s, type |-> "String"]
ListT(l) == [type |-> "List", l |-> l]
Entry(val, exp) == [val |-> val, exp |-> exp]

(* HashMap operations on DbState.kv, a function whose domain is the keys present *)
Contains(s, key) == key \in DOMAIN s
Insert(s, key, e) == [x \in DOMAIN s \cup {key} |-> IF x = key THEN e ELSE s[x]]
Remove(s, key) == [x \in DOMAIN s \ {key} |-> s[x]]
Lookup(s, key) == IF Contains(s, key) THEN Some(s[key]) ELSE None

(* Db::new *)
DbNew == <<>>

(* Db::get taking the deadline instant itself as expired (>= for >) *)
DbGet_AtDeadline(s, key, t) ==
    IF Contains(s, key) /\ IsSome(s[key].exp) /\ t >= Unwrap(s[key].exp)
    THEN [kv |-> Remove(s, key), ret |-> None]
    ELSE [kv |-> s, ret |-> IF Contains(s, key) THEN Some(s[key].val) ELSE None]

(* Db::get: the expiry test and removal, then the lookup and clone.  t is  *)
(* the value of Instant::now() read while the lock is held.               *)
DbGet(s, key, t) ==
    IF Contains(s, key) /\ IsSome(s[key].exp) /\ t > Unwrap(s[key].exp)
    THEN [kv |-> Remove(s, key), ret |-> None]
    ELSE [kv |-> s, ret |-> IF Contains(s, key) THEN Some(s[key].val) ELSE None]

(* Db::set keeping the old deadline when it is given none *)
DbSet_KeepsDeadline(s, key, value, expiry) ==
    [kv |-> Insert(s, key, Entry(StringT(value),
                IF expiry = None /\ Contains(s, key) THEN s[key].exp ELSE expiry)),
     ret |-> None]

(* Db::set *)
DbSet(s, key, value, expiry) ==
    [kv |-> Insert(s, key, Entry(StringT(value), expiry)), ret |-> None]

(* Db::rpush putting the new values in front of the list *)
DbRPush_Prepends(s, key, values) ==
    LET s1 == IF Contains(s, key) THEN s ELSE Insert(s, key, Entry(ListT(<<>>), None))
        e == s1[key]
    IN  IF e.val.type = "List"
        THEN [kv |-> Insert(s1, key, Entry(ListT(values \o e.val.l), e.exp)),
              ret |-> Len(e.val.l) + Len(values)]
        ELSE [kv |-> s1, ret |-> 0]

(* Db::rpush replacing a non-list entry by a fresh list *)
DbRPush_Overwrites(s, key, values) ==
    LET e == IF Contains(s, key) /\ s[key].val.type = "List"
             THEN s[key] ELSE Entry(ListT(<<>>), None)
    IN  [kv |-> Insert(s, key, Entry(ListT(e.val.l \o values), e.exp)),
         ret |-> IF Contains(s, key) /\ s[key].val.type # "List" THEN 0
                 ELSE Len(e.val.l) + Len(values)]

(* Db::rpush turning a String entry into a list under the entry's deadline *)
DbRPush_ReusesEntry(s, key, values) ==
    LET s1 == IF Contains(s, key) THEN s ELSE Insert(s, key, Entry(ListT(<<>>), None))
        e == s1[key]
        l == IF e.val.type = "List" THEN e.val.l ELSE <<>>
    IN  [kv |-> Insert(s1, key, Entry(ListT(l \o values), e.exp)),
         ret |-> Len(l) + Len(values)]

(* Db::rpush: entry(key).or_insert((List [], None)), then extend or 0 *)
DbRPush(s, key, values) ==
    LET s1 == IF Contains(s, key) THEN s ELSE Insert(s, key, Entry(ListT(<<>>), None))
        e == s1[key]
    IN  IF e.val.type = "List"
        THEN [kv |-> Insert(s1, key, Entry(ListT(e.val.l \o values), e.exp)),
              ret |-> Len(e.val.l) + Len(values)]
        ELSE [kv |-> s1, ret |-> 0]

(* list[a..=b] on a 0-based Vec *)
Slice(l, a, b) == SubSeq(l, a + 1, b + 1)

(* Db::lrange: Ok(items) or Err(()) *)
DbLRange(s, key, start, end) ==
    IF ~Contains(s, key) THEN [kv |-> s, ret |-> [ok |-> TRUE, items |-> <<>>]]
    ELSE IF s[key].val.type # "List" THEN [kv |-> s, ret |-> [ok |-> FALSE]]
    ELSE
      LET list == s[key].val.l
          len == Len(list)
          start0 == IF start < 0 THEN len + start ELSE start
          end0 == IF end < 0 THEN len + end ELSE end
          start_idx == IF start0 < 0 THEN 0 ELSE start0
          end_idx == IF end0 >= len THEN len - 1 ELSE end0
      IN  IF len = 0 THEN [kv |-> s, ret |-> [ok |-> TRUE, items |-> <<>>]]
          ELSE IF start_idx >= end_idx \/ start_idx >= len
          THEN [kv |-> s, ret |-> [ok |-> TRUE, items |-> <<>>]]
          ELSE [kv |-> s, ret |-> [ok |-> TRUE, items |-> Slice(list, start_idx, end_idx)]]

(* An entry whose deadline has passed at instant t (db.rs:35) *)
Expired(s, key, t) ==
    Contains(s, key) /\ IsSome(s[key].exp) /\ t > Unwrap(s[key].exp)

RECURSIVE Reverse(_)
Reverse(l) == IF l = <<>> THEN <<>> ELSE Reverse(Tail(l)) \o <<Head(l)>>

(* Db::lpush is called by commands.rs:70 and defined nowhere in src/: from *)
(* the store table of the specification (each value is inserted at the     *)
(* head in turn; an expired entry is an absent one).                       *)
DbLPush(s, key, values, t) ==
    LET s0 == IF Expired(s, key, t) THEN Remove(s, key) ELSE s
        s1 == IF Contains(s0, key) THEN s0 ELSE Insert(s0, key, Entry(ListT(<<>>), None))
        e == s1[key]
    IN  IF e.val.type = "List"
        THEN [kv |-> Insert(s1, key, Entry(ListT(Reverse(values) \o e.val.l), e.exp)),
              ret |-> Len(e.val.l) + Len(values)]
        ELSE [kv |-> s1, ret |-> 0]

(* Db::llen is called by commands.rs:80 and defined nowhere in src/: from  *)
(* the store table of the specification.                                   *)
DbLLen(s, key, t) ==
    LET s0 == IF Expired(s, key, t) THEN Remove(s, key) ELSE s
    IN  IF ~Contains(s0, key) THEN [kv |-> s0, ret |-> [ok |-> TRUE, len |-> 0]]
        ELSE IF s0[key].val.type = "List"
        THEN [kv |-> s0, ret |-> [ok |-> TRUE, len |-> Len(s0[key].val.l)]]
        ELSE [kv |-> s0, ret |-> [ok |-> FALSE]]

-----------------------------------------------------------------------------
(* resp.rs: RespValue *)
SimpleString(s) == [s |-> s, t |-> "SimpleString"]
SimpleError(s) == [s |-> s, t |-> "SimpleError"]
Integer(i) == [t |-> "Integer", i |-> i]
BulkString(s) == [s |-> s, t |-> "BulkString"]
Array(a) == [a |-> a, t |-> "Array"]
Null == [t |-> "Null"]

(* commands.rs: Command *)
Ping == [name |-> "Ping"]
Echo(msg) == [name |-> "Echo", msg |-> msg]
Set(key, value, duration) == [key |-> key, value |-> value, name |-> "Set", duration |-> duration]
Get(key) == [key |-> key, name |-> "Get"]
RPush(key, values) == [key |-> key, values |-> values, name |-> "RPush"]
LPush(key, values) == [key |-> key, values |-> values, name |-> "LPush"]
LRange(key, start, end) == [key |-> key, start |-> start, end |-> end, name |-> "LRange"]
LLen(key) == [key |-> key, name |-> "LLen"]

WRONG_TYPE_ERR == <<"W", "R", "O", "N", "G", "T", "Y", "P", "E", " ", "O", "p", "e", "r", "a", "t", "i", "o", "n", " ", "a", "g", "a", "i", "n", "s", "t", " ", "a", " ", "k", "e", "y", " ", "h", "o", "l", "d", "i", "n", "g", " ", "t", "h", "e", " ", "w", "r", "o", "n", "g", " ", "k", "i", "n", "d", " ", "o", "f", " ", "v", "a", "l", "u", "e">>
PONG == <<"P", "O", "N", "G">>
OK == <<"O", "K">>

(* handle_push *)
handle_push(len) ==
    IF len = 0 THEN SimpleError(WRONG_TYPE_ERR) ELSE Integer(len)

(* Command::execute at instant t: the new store and the reply *)
Execute(cmd, s, t) ==
    CASE cmd.name = "Ping" -> [kv |-> s, reply |-> SimpleString(PONG)]
      [] cmd.name = "Echo" -> [kv |-> s, reply |-> BulkString(cmd.msg)]
      [] cmd.name = "Set" ->
            LET expiry == IF IsSome(cmd.duration) THEN Some(t + Unwrap(cmd.duration)) ELSE None
            IN  [kv |-> DbSet(s, cmd.key, cmd.value, expiry).kv, reply |-> SimpleString(OK)]
      [] cmd.name = "Get" ->
            LET r == DbGet(s, cmd.key, t)
            IN  [kv |-> r.kv,
                 reply |-> IF r.ret = None THEN Null
                           ELSE IF Unwrap(r.ret).type = "String" THEN BulkString(Unwrap(r.ret).s)
                           ELSE SimpleError(WRONG_TYPE_ERR)]
      [] cmd.name = "RPush" ->
            LET r == DbRPush(s, cmd.key, cmd.values)
            IN  [kv |-> r.kv, reply |-> handle_push(r.ret)]
      [] cmd.name = "LPush" ->
            LET r == DbLPush(s, cmd.key, cmd.values, t)
            IN  [kv |-> r.kv, reply |-> handle_push(r.ret)]
      [] cmd.name = "LRange" ->
            LET r == DbLRange(s, cmd.key, cmd.start, cmd.end)
            IN  [kv |-> r.kv,
                 reply |-> IF r.ret.ok
                           THEN Array([i \in 1..Len(r.ret.items) |-> BulkString(r.ret.items[i])])
                           ELSE SimpleError(WRONG_TYPE_ERR)]
      [] cmd.name = "LLen" ->
            LET r == DbLLen(s, cmd.key, t)
            IN  [kv |-> r.kv,
                 reply |-> IF r.ret.ok THEN Integer(r.ret.len) ELSE SimpleError(WRONG_TYPE_ERR)]

-----------------------------------------------------------------------------
(* The store driven command by command: each step is one Command::execute *)
(* on the shared Db, or the clock advancing.                               *)
Keys == {<<"k">>}
Vals == {<<"a">>, <<"b">>}
Values == UNION {[1..n -> Vals] : n \in 1..MaxPush}
Durations == {None} \cup {Some(ms) : ms \in 0..MaxMs}
Indices == (0 - MaxIdx)..MaxIdx

NoCmd == [name |-> "None"]
NoHist == [px |-> None, pure |-> TRUE, pushed |-> <<>>]

(* What the history of cmd's key becomes once cmd has replied *)
HistAfter(h, cmd, t, reply) ==
    CASE cmd.name = "Set" ->
            [h EXCEPT ![cmd.key] =
                [px |-> IF IsSome(cmd.duration)
                        THEN Some([v |-> cmd.value, t0 |-> t, T |-> Unwrap(cmd.duration)])
                        ELSE None,
                 pure |-> TRUE, pushed |-> <<>>]]
      [] cmd.name = "RPush" /\ reply.t = "Integer" ->
            [h EXCEPT ![cmd.key] =
                [px |-> None, pure |-> h[cmd.key].pure, pushed |-> h[cmd.key].pushed \o cmd.values]]
      [] cmd.name = "LPush" /\ reply.t = "Integer" ->
            [h EXCEPT ![cmd.key] = [px |-> None, pure |-> FALSE, pushed |-> <<>>]]
      [] OTHER -> h

Idle ==
    /\ lock = None /\ task = <<>> /\ lin = <<>>
    /\ conn = <<>> /\ net = <<>> /\ sent = <<>> /\ done = <<>> /\ main = <<>>
    /\ pin = <<>>

Init ==
    /\ kv = DbNew
    /\ now = 0
    /\ last = [t |-> 0, cmd |-> NoCmd, reply |-> Null, pre |-> DbNew]
    /\ hist = [k \in Keys |-> NoHist]
    /\ Idle

CmdStep(cmd) ==
    LET r == Execute(cmd, kv, now)
    IN  /\ kv' = r.kv
        /\ last' = [t |-> now, cmd |-> cmd, reply |-> r.reply, pre |-> kv]
        /\ hist' = HistAfter(hist, cmd, now, r.reply)
        /\ UNCHANGED <<now, lockVars, connVars, pin>>

(* The list bound of the model: a push is offered while the list has room *)
Room(key, values) ==
    Contains(kv, key) /\ kv[key].val.type = "List"
        => Len(kv[key].val.l) + Len(values) <= MaxList

ExecPing == CmdStep(Ping)
ExecEcho == \E v \in Vals : CmdStep(Echo(v))
ExecSet == \E k \in Keys, v \in Vals, d \in Durations : CmdStep(Set(k, v, d))
ExecGet == \E k \in Keys : CmdStep(Get(k))
ExecRPush == \E k \in Keys, vs \in Values : Room(k, vs) /\ CmdStep(RPush(k, vs))
ExecLPush == \E k \in Keys, vs \in Values : Room(k, vs) /\ CmdStep(LPush(k, vs))
ExecLRange == \E k \in Keys, i \in Indices, j \in Indices : CmdStep(LRange(k, i, j))
ExecLLen == \E k \in Keys : CmdStep(LLen(k))

Tick ==
    /\ now < MaxTime
    /\ now' = now + 1
    /\ UNCHANGED <<kv, histVars, lockVars, connVars, pin>>

Next ==
    \/ ExecPing
    \/ ExecEcho
    \/ ExecSet
    \/ ExecGet
    \/ ExecRPush
    \/ ExecLPush
    \/ ExecLRange
    \/ ExecLLen
    \/ Tick

Spec == Init /\ [][Next]_vars

-----------------------------------------------------------------------------
(* Properties of the store under Spec.  last.cmd is the command that has   *)
(* just replied, last.pre the store it ran on, last.t the instant it ran.  *)
WrongType == SimpleError(WRONG_TYPE_ERR)
BulkArray(items) == Array([i \in 1..Len(items) |-> BulkString(items[i])])
LastIs(names) == last.cmd.name \in names
HeldString(s, key) == Contains(s, key) /\ s[key].val.type = "String"
HeldList(s, key) == Contains(s, key) /\ s[key].val.type = "List"

(* C4, as stated: after SET k v PX T at t0 with no later write to k, GET k *)
(* replies v at every instant < t0+T and Null at every instant >= t0+T,    *)
(* and the GET that observes the expiry removes the entry.                 *)
C4_ExpiryAtDeadline ==
    LastIs({"Get"}) /\ IsSome(hist[last.cmd.key].px) =>
        LET p == Unwrap(hist[last.cmd.key].px)
        IN  /\ last.t < p.t0 + p.T => last.reply = BulkString(p.v)
            /\ last.t >= p.t0 + p.T =>
                    last.reply = Null /\ ~Contains(kv, last.cmd.key)

(* C4, amended: GET k replies v at every instant <= t0+T, leaving the      *)
(* entry in place, and Null at every instant > t0+T; the GET that observes *)
(* the expiry removes the entry.                                           *)
C4_ExpiryAfterDeadline ==
    LastIs({"Get"}) /\ IsSome(hist[last.cmd.key].px) =>
        LET p == Unwrap(hist[last.cmd.key].px)
        IN  /\ last.t <= p.t0 + p.T =>
                    last.reply = BulkString(p.v) /\ kv = last.pre
            /\ last.t > p.t0 + p.T =>
                    last.reply = Null /\ ~Contains(kv, last.cmd.key)

(* A GET has just observed the expiry of a SET .. PX entry and removed it *)
C4_Witness ==
    /\ LastIs({"Get"}) /\ IsSome(hist[last.cmd.key].px)
    /\ Contains(last.pre, last.cmd.key)
    /\ last.t > Unwrap(hist[last.cmd.key].px).t0 + Unwrap(hist[last.cmd.key].px).T
    /\ last.reply = Null

(* C5: GET, RPUSH and LRANGE on a key whose deadline has passed reply what *)
(* they reply when the key is absent.                                      *)
C5_ExpiredIsAbsent ==
    LastIs({"Get", "RPush", "LRange"}) /\ Expired(last.pre, last.cmd.key, last.t) =>
        last.reply = Execute(last.cmd, Remove(last.pre, last.cmd.key), last.t).reply

(* C6: a list operation on a key holding a live String replies WRONGTYPE   *)
(* and leaves the store as it was, so that GET still replies the string.   *)
C6_TypeDiscipline ==
    /\ LastIs({"RPush", "LPush", "LRange", "LLen"})
    /\ HeldString(last.pre, last.cmd.key)
    /\ ~Expired(last.pre, last.cmd.key, last.t)
    => /\ last.reply = WrongType
       /\ kv = last.pre
       /\ Execute(Get(last.cmd.key), kv, last.t).reply
             = BulkString(last.pre[last.cmd.key].val.s)

(* An RPUSH has just been refused on a String key *)
C6_Witness ==
    /\ LastIs({"RPush"}) /\ HeldString(last.pre, last.cmd.key)
    /\ ~Expired(last.pre, last.cmd.key, last.t)
    /\ last.reply = WrongType

(* C7: after SET k v [PX ms] the key holds String v with deadline now+ms   *)
(* if PX was given and none otherwise, whatever it held before, and GET k  *)
(* replies v at every instant up to that deadline.                         *)
C7_SetOverwrites ==
    LastIs({"Set"}) =>
        LET c == last.cmd
            exp == IF IsSome(c.duration) THEN Some(last.t + Unwrap(c.duration)) ELSE None
        IN  /\ kv = Insert(last.pre, c.key, Entry(StringT(c.value), exp))
            /\ \A t \in last.t..MaxTime :
                    (IsSome(exp) => t <= Unwrap(exp))
                        => Execute(Get(c.key), kv, t).reply = BulkString(c.value)

(* A SET without PX has just replaced an entry that carried a deadline *)
C7_Witness ==
    /\ LastIs({"Set"}) /\ last.cmd.duration = None
    /\ Contains(last.pre, last.cmd.key) /\ IsSome(last.pre[last.cmd.key].exp)
    /\ kv[last.cmd.key].exp = None

(* The slice the LRANGE index rules select from a list *)
InclusiveRange(l, start, end) ==
    LET L == Len(l)
        s0 == IF start < 0 THEN L + start ELSE start
        e0 == IF end < 0 THEN L + end ELSE end
        s1 == IF s0 < 0 THEN 0 ELSE s0
        e1 == IF e0 >= L THEN L - 1 ELSE e0
    IN  IF L = 0 \/ s1 > e1 \/ s1 >= L THEN <<>> ELSE SubSeq(l, s1 + 1, e1 + 1)

(* C8: LRANGE on a list replies the inclusive slice of the index rules, a  *)
(* single element when start = end is in range.                            *)
C8_LRangeInclusive ==
    LastIs({"LRange"}) /\ HeldList(last.pre, last.cmd.key) =>
        last.reply = BulkArray(InclusiveRange(last.pre[last.cmd.key].val.l,
                                              last.cmd.start, last.cmd.end))

(* C9: RPUSH on an absent key creates a List without deadline, on a List   *)
(* appends at the tail, and replies the new length; a list built by RPUSH  *)
(* calls alone is the concatenation of their values in call order.         *)
C9_RPushAppends ==
    /\ \A k \in Keys :
          HeldList(kv, k) /\ hist[k].pure =>
              kv[k] = Entry(ListT(hist[k].pushed), None)
    /\ LastIs({"RPush"}) /\ ~HeldString(last.pre, last.cmd.key) =>
          LET c == last.cmd
              old == IF Contains(last.pre, c.key) THEN last.pre[c.key].val.l ELSE <<>>
          IN  /\ kv = Insert(last.pre, c.key, Entry(ListT(old \o c.values), None))
              /\ last.reply = Integer(Len(old) + Len(c.values))

(* A second RPUSH has just extended a list made by RPUSH calls *)
C9_Witness ==
    /\ LastIs({"RPush"}) /\ HeldList(last.pre, last.cmd.key)
    /\ hist[last.cmd.key].pure
    /\ Len(hist[last.cmd.key].pushed) = MaxList
    /\ last.reply = Integer(MaxList)

-----------------------------------------------------------------------------
(* The store under concurrent callers: each task runs one Db method, step  *)
(* by step, between taking the Mutex (let mut lock = self.state.lock())    *)
(* and dropping the guard at the method's return.                          *)
NTasks == 2
Tasks == 1..NTasks
K1 == <<"k">>

CallGet(key) == [key |-> key, op |-> "get"]
CallSet(key, value, expiry) == [key |-> key, value |-> value, expiry |-> expiry, op |-> "set"]
CallRPush(key, values) == [key |-> key, values |-> values, op |-> "rpush"]
CallLRange(key, start, end) == [key |-> key, start |-> start, end |-> end, op |-> "lrange"]

Calls ==
    {CallGet(K1), CallLRange(K1, 0, 0 - 1)}
        \cup {CallSet(K1, <<"b">>, e) : e \in {None, Some(1)}}
        \cup {CallRPush(K1, <<v>>) : v \in Vals}

(* Stores the callers may find: each is reachable under Spec *)
LockStores ==
    {DbNew,
     K1 :> Entry(StringT(<<"a">>), Some(0)),
     K1 :> Entry(StringT(<<"a">>), None),
     K1 :> Entry(ListT(<<<<"a">>>>), None)}

(* Results of the Db methods, tagged by their Rust type *)
RetOption(o) == [opt |-> o]
RetUnit == [unit |-> TRUE]
RetUsize(n) == [usize |-> n]
RetResult(r) == [res |-> r]
NoRet == [none |-> TRUE]

IdleTask == [pc |-> "idle"]

InitLock ==
    /\ kv \in LockStores
    /\ now = 0
    /\ last = [t |-> 0, cmd |-> NoCmd, reply |-> Null, pre |-> DbNew]
    /\ hist = [k \in Keys |-> NoHist]
    /\ lock = None
    /\ task = [t \in Tasks |-> IdleTask]
    /\ lin = [init |-> kv, order |-> <<>>]
    /\ conn = <<>> /\ net = <<>> /\ sent = <<>> /\ done = <<>> /\ main = <<>>
    /\ pin = <<>>

LockFrame == UNCHANGED <<now, histVars, connVars, pin>>

(* A connection task enters a Db method *)
CallStart(t) ==
    /\ task[t].pc = "idle"
    /\ \E c \in Calls :
          task' = [task EXCEPT ![t] = [ret |-> NoRet, pc |-> "lock", call |-> c, at |-> 0]]
    /\ UNCHANGED <<kv, lock, lin>>
    /\ LockFrame

FirstStep(op) ==
    CASE op = "get" -> "get_check"
      [] op = "set" -> "set_insert"
      [] op = "rpush" -> "rpush_entry"
      [] op = "lrange" -> "lrange_match"

(* Entering the method without waiting for the Mutex *)
Acquire_NoWait(t) ==
    /\ task[t].pc = "lock"
    /\ lock' = Some(t)
    /\ task' = [task EXCEPT ![t].pc = FirstStep(task[t].call.op)]
    /\ lin' = [lin EXCEPT !.order = Append(@, t)]
    /\ UNCHANGED kv
    /\ LockFrame

(* self.state.lock().unwrap(): blocks until the Mutex is free *)
Acquire(t) ==
    /\ task[t].pc = "lock"
    /\ lock = None
    /\ lock' = Some(t)
    /\ task' = [task EXCEPT ![t].pc = FirstStep(task[t].call.op)]
    /\ lin' = [lin EXCEPT !.order = Append(@, t)]
    /\ UNCHANGED kv
    /\ LockFrame

(* Db::get: if let Some((_, Some(expiry))) = kv.get(key) { if now() > expiry *)
GetCheck(t) ==
    /\ task[t].pc = "get_check"
    /\ task' = [task EXCEPT ![t].at = now,
                            ![t].pc = IF Expired(kv, task[t].call.key, now)
                                      THEN "get_remove" ELSE "get_read"]
    /\ UNCHANGED <<kv, lock, lin>>
    /\ LockFrame

(* Db::get: lock.kv.remove(key); return None *)
GetRemove(t) ==
    /\ task[t].pc = "get_remove"
    /\ kv' = Remove(kv, task[t].call.key)
    /\ task' = [task EXCEPT ![t].ret = RetOption(None), ![t].pc = "unlock"]
    /\ UNCHANGED <<lock, lin>>
    /\ LockFrame

(* Db::get: lock.kv.get(key).map(|(val, _)| val.clone()) *)
GetRead(t) ==
    /\ task[t].pc = "get_read"
    /\ task' = [task EXCEPT
                   ![t].ret = RetOption(IF Contains(kv, task[t].call.key)
                                        THEN Some(kv[task[t].call.key].val) ELSE None),
                   ![t].pc = "unlock"]
    /\ UNCHANGED <<kv, lock, lin>>
    /\ LockFrame

(* Db::set: lock.kv.insert(key, (DataType::String(value), expiry)) *)
SetInsert(t) ==
    /\ task[t].pc = "set_insert"
    /\ kv' = Insert(kv, task[t].call.key,
                     Entry(StringT(task[t].call.value), task[t].call.expiry))
    /\ task' = [task EXCEPT ![t].ret = RetUnit, ![t].pc = "unlock"]
    /\ UNCHANGED <<lock, lin>>
    /\ LockFrame

(* Db::rpush: lock.kv.entry(key).or_insert((DataType::List(Vec::new()), None)) *)
RPushEntry(t) ==
    /\ task[t].pc = "rpush_entry"
    /\ kv' = IF Contains(kv, task[t].call.key) THEN kv
              ELSE Insert(kv, task[t].call.key, Entry(ListT(<<>>), None))
    /\ task' = [task EXCEPT ![t].pc = "rpush_match"]
    /\ UNCHANGED <<lock, lin>>
    /\ LockFrame

(* Db::rpush: match &mut entry.0 { List(list) => extend, len; _ => 0 } *)
RPushMatch(t) ==
    /\ task[t].pc = "rpush_match"
    /\ LET key == task[t].call.key
            e == IF Contains(kv, key) THEN kv[key] ELSE Entry(ListT(<<>>), None)
       IN  IF e.val.type = "List"
           THEN /\ kv' = Insert(kv, key, Entry(ListT(e.val.l \o task[t].call.values), e.exp))
                /\ task' = [task EXCEPT
                               ![t].ret = RetUsize(Len(e.val.l) + Len(task[t].call.values)),
                               ![t].pc = "unlock"]
           ELSE /\ kv' = kv
                /\ task' = [task EXCEPT ![t].ret = RetUsize(0), ![t].pc = "unlock"]
    /\ UNCHANGED <<lock, lin>>
    /\ LockFrame

(* Db::lrange: the whole match on lock.kv.get(&key), which only reads *)
LRangeMatch(t) ==
    /\ task[t].pc = "lrange_match"
    /\ task' = [task EXCEPT
                   ![t].ret = RetResult(DbLRange(kv, task[t].call.key,
                                                 task[t].call.start, task[t].call.end).ret),
                   ![t].pc = "unlock"]
    /\ UNCHANGED <<kv, lock, lin>>
    /\ LockFrame

(* The method returns with the MutexGuard still alive *)
Release_KeepsGuard(t) ==
    /\ task[t].pc = "unlock"
    /\ task' = [task EXCEPT ![t].pc = "done"]
    /\ UNCHANGED <<kv, lock, lin>>
    /\ LockFrame

(* The MutexGuard is dropped when the method returns *)
Release(t) ==
    /\ task[t].pc = "unlock"
    /\ lock' = IF lock = Some(t) THEN None ELSE lock
    /\ task' = [task EXCEPT ![t].pc = "done"]
    /\ UNCHANGED <<kv, lin>>
    /\ LockFrame

NextLock ==
    \/ \E t \in Tasks : CallStart(t)
    \/ \E t \in Tasks : Acquire(t)
    \/ \E t \in Tasks : GetCheck(t)
    \/ \E t \in Tasks : GetRemove(t)
    \/ \E t \in Tasks : GetRead(t)
    \/ \E t \in Tasks : SetInsert(t)
    \/ \E t \in Tasks : RPushEntry(t)
    \/ \E t \in Tasks : RPushMatch(t)
    \/ \E t \in Tasks : LRangeMatch(t)
    \/ \E t \in Tasks : Release(t)
    \/ Tick

SpecLock == InitLock /\ [][NextLock]_vars

(* One Db method applied in one piece to store s; at is the instant a get read *)
ApplyCall(c, s, at) ==
    CASE c.op = "get" ->
            LET r == DbGet(s, c.key, at) IN [kv |-> r.kv, ret |-> RetOption(r.ret)]
      [] c.op = "set" ->
            [kv |-> DbSet(s, c.key, c.value, c.expiry).kv, ret |-> RetUnit]
      [] c.op = "rpush" ->
            LET r == DbRPush(s, c.key, c.values) IN [kv |-> r.kv, ret |-> RetUsize(r.ret)]
      [] c.op = "lrange" ->
            LET r == DbLRange(s, c.key, c.start, c.end) IN [kv |-> r.kv, ret |-> RetResult(r.ret)]

(* The store after the calls of the tasks in order, applied one after another *)
RECURSIVE SeqStore(_, _)
SeqStore(order, s) ==
    IF order = <<>> THEN s
    ELSE SeqStore(Tail(order),
                  ApplyCall(task[Head(order)].call, s, task[Head(order)].at).kv)

(* Every task of order returned what its call returns in that sequential run *)
RECURSIVE SeqReturns(_, _)
SeqReturns(order, s) ==
    \/ order = <<>>
    \/ LET r == ApplyCall(task[Head(order)].call, s, task[Head(order)].at)
       IN  r.ret = task[Head(order)].ret /\ SeqReturns(Tail(order), r.kv)

Orders(S) == {o \in [1..Cardinality(S) -> S] : \A i, j \in DOMAIN o : i # j => o[i] # o[j]}
Finished == {t \in Tasks : task[t].pc = "done"}
Quiet == \A t \in Tasks : task[t].pc \in {"idle", "lock", "done"}

(* C1: whenever no call is under way, the store and the values returned    *)
(* are those of some sequential ordering of the calls that completed.      *)
C1_Linearizable ==
    Quiet => \E o \in Orders(Finished) :
                /\ SeqStore(o, lin.init) = kv
                /\ SeqReturns(o, lin.init)

(* Every task has completed its call on the key: one a get that found the  *)
(* entry expired and removed it, another a set.                            *)
C1_Witness ==
    /\ \A t \in Tasks : task[t].pc = "done"
    /\ \E t, u \in Tasks :
          /\ task[t].call.op = "get" /\ task[t].ret = RetOption(None)
          /\ task[u].call.op = "set"
          /\ Contains(lin.init, K1)

(* While a task is inside a Db method it owns the Mutex *)
MutualExclusion ==
    \A t \in Tasks :
        task[t].pc \notin {"idle", "lock", "done"} => lock = Some(t)

(* A connection task awaits only outside the Db methods: at the socket     *)
(* read before it calls one, at the socket write after the method returned *)
AtSuspensionPoint(t) == task[t].pc \in {"idle", "done"}

(* C15: a task at a suspension point does not own the Mutex, and a task    *)
(* blocked in lock() is blocked by a task that is inside a Db method, not  *)
(* by one that waits on its socket.                                        *)
C15_NoLockAcrossAwait ==
    \A t \in Tasks :
        /\ AtSuspensionPoint(t) => lock # Some(t)
        /\ task[t].pc = "lock" /\ IsSome(lock) => ~AtSuspensionPoint(Unwrap(lock))

(* One task has been through the Mutex, has returned from its method and   *)
(* waits on its socket, while another is inside its method and owns the    *)
(* Mutex                                                                   *)
C15_Witness ==
    \E t, u \in Tasks :
        /\ task[t].pc = "done" /\ t \in {lin.order[i] : i \in DOMAIN lin.order}
        /\ u # t /\ lock = Some(u) /\ ~AtSuspensionPoint(u)

-----------------------------------------------------------------------------
(* resp.rs: the codec.  A buffer is a sequence of bytes, each a one-       *)
(* character string; a cursor position is the number of bytes consumed.    *)
(* String::from_utf8_lossy is the identity on the ASCII bytes used here.   *)
CR == "\r"
LF == "\n"
CRLF == <<CR, LF>>
Digits == <<"0", "1", "2", "3", "4", "5", "6", "7", "8", "9">>
IsDigit(c) == \E d \in 1..10 : Digits[d] = c
DigitValue(c) == (CHOOSE d \in 1..10 : Digits[d] = c) - 1

(* The decimal digits of a natural number, as format!("{}", n) writes them *)
RECURSIVE FormatNat(_)
FormatNat(n) ==
    IF n < 10 THEN <<Digits[n + 1]>> ELSE FormatNat(n \div 10) \o <<Digits[(n % 10) + 1]>>

(* The digits of an i64 without its sign *)
FormatInt_NoSign(i) == IF i < 0 THEN FormatNat(0 - i) ELSE FormatNat(i)

(* format!("{}", i) of an i64 *)
FormatInt(i) == IF i < 0 THEN <<"-">> \o FormatNat(0 - i) ELSE FormatNat(i)

RECURSIVE DigitsValue(_, _)
DigitsValue(s, acc) ==
    IF s = <<>> THEN acc ELSE DigitsValue(Tail(s), acc * 10 + DigitValue(Head(s)))

AllDigits(s) == s # <<>> /\ \A i \in 1..Len(s) : IsDigit(s[i])

(* str::parse::<i64>: an optional sign, then one or more decimal digits.   *)
(* Exact for up to nine digits, which covers every input drawn here.       *)
ParseI64(s) ==
    IF s # <<>> /\ Head(s) = "-" /\ AllDigits(Tail(s))
    THEN [ok |-> TRUE, v |-> 0 - DigitsValue(Tail(s), 0)]
    ELSE IF s # <<>> /\ Head(s) = "+" /\ AllDigits(Tail(s))
    THEN [ok |-> TRUE, v |-> DigitsValue(Tail(s), 0)]
    ELSE IF AllDigits(s) THEN [ok |-> TRUE, v |-> DigitsValue(s, 0)]
    ELSE [ok |-> FALSE]

(* str::parse::<u64>: an optional plus sign, then one or more digits *)
ParseU64(s) ==
    IF s # <<>> /\ Head(s) = "+" /\ AllDigits(Tail(s))
    THEN [ok |-> TRUE, v |-> DigitsValue(Tail(s), 0)]
    ELSE IF AllDigits(s) THEN [ok |-> TRUE, v |-> DigitsValue(s, 0)]
    ELSE [ok |-> FALSE]

RECURSIVE Concat(_)
Concat(ss) == IF ss = <<>> THEN <<>> ELSE Head(ss) \o Concat(Tail(ss))

(* RespValue::serialize *)
RECURSIVE serialize(_)
serialize(f) ==
    CASE f.t = "SimpleString" -> <<"+">> \o f.s \o CRLF
      [] f.t = "SimpleError" -> <<"-">> \o f.s \o CRLF
      [] f.t = "Integer" -> <<":">> \o FormatInt(f.i) \o CRLF
      [] f.t = "BulkString" -> <<"$">> \o FormatNat(Len(f.s)) \o CRLF \o f.s \o CRLF
      [] f.t = "Null" -> <<"$", "-", "1">> \o CRLF
      [] f.t = "Array" ->
            <<"*">> \o FormatNat(Len(f.a)) \o CRLF
                \o Concat([i \in 1..Len(f.a) |-> serialize(f.a[i])])

(* Result<_, String> of the parsers: Ok with the cursor after the call,    *)
(* Err with its message, or a panic unwinding out of the parser.           *)
Ok(value, pos) == [value |-> value, ok |-> TRUE, pos |-> pos]
Err(msg) == [ok |-> FALSE, panic |-> FALSE, err |-> msg]
Panicked(msg) == [ok |-> FALSE, panic |-> TRUE, err |-> msg]

(* read_line: the bytes from the cursor to the first CRLF at or after it *)
read_line(buf, position) ==
    IF position >= Len(buf) THEN Err("Incomplete")
    ELSE LET found == {i \in position..(Len(buf) - 2) : buf[i + 1] = CR /\ buf[i + 2] = LF}
         IN  IF found = {} THEN Err("Incomplete")
             ELSE LET i == CHOOSE x \in found : \A y \in found : x <= y
                  IN  Ok(SubSeq(buf, position + 1, i), i + 2)

(* parse_simple_string *)
parse_simple_string(buf, pos) ==
    LET l == read_line(buf, pos)
    IN  IF ~l.ok THEN l ELSE Ok(SimpleString(l.value), l.pos)

(* parse_error *)
parse_error(buf, pos) ==
    LET l == read_line(buf, pos)
    IN  IF ~l.ok THEN l ELSE Ok(SimpleError(l.value), l.pos)

(* parse_integer *)
parse_integer(buf, pos) ==
    LET l == read_line(buf, pos)
    IN  IF ~l.ok THEN l
        ELSE IF ~ParseI64(l.value).ok THEN Err("Invalid integer")
        ELSE Ok(Integer(ParseI64(l.value).v), l.pos)

(* parse_bulk_string: vec![0; len as usize] with len < -1 asks for more    *)
(* than isize::MAX bytes and panics with a capacity overflow; read_exact   *)
(* fails when fewer bytes remain than asked for.                           *)
parse_bulk_string(buf, pos) ==
    LET l == read_line(buf, pos)
        len == ParseI64(l.value)
    IN  IF ~l.ok THEN l
        ELSE IF ~len.ok THEN Err("Invalid bulk string length")
        ELSE IF len.v = 0 - 1 THEN Ok(Null, l.pos)
        ELSE IF len.v < 0 THEN Panicked("capacity overflow")
        ELSE IF Len(buf) - l.pos < len.v THEN Err("Failed to read bulk string data")
        ELSE IF Len(buf) - (l.pos + len.v) < 2 THEN Err("Failed to read CRLF")
        ELSE IF SubSeq(buf, l.pos + len.v + 1, l.pos + len.v + 2) # CRLF
        THEN Err("Invalid bulk string ending")
        ELSE Ok(BulkString(SubSeq(buf, l.pos + 1, l.pos + len.v)), l.pos + len.v + 2)

RECURSIVE parse_resp(_, _)
RECURSIVE parse_items(_, _, _, _)

(* parse_array: Vec::with_capacity(array_len as usize) with array_len < -1 *)
(* panics with a capacity overflow.                                        *)
parse_array(buf, pos) ==
    LET l == read_line(buf, pos)
        array_len == ParseI64(l.value)
    IN  IF ~l.ok THEN l
        ELSE IF ~array_len.ok THEN Err("Invalid array length")
        ELSE IF array_len.v = 0 - 1 THEN Ok(Null, l.pos)
        ELSE IF array_len.v < 0 THEN Panicked("capacity overflow")
        ELSE parse_items(buf, l.pos, array_len.v, <<>>)

(* parse_array: for _ in 0..array_len { items.push(parse_resp(cursor)?) } *)
parse_items(buf, pos, n, items) ==
    IF n = 0 THEN Ok(Array(items), pos)
    ELSE LET r == parse_resp(buf, pos)
         IN  IF ~r.ok THEN r ELSE parse_items(buf, r.pos, n - 1, Append(items, r.value))

(* parse_resp *)
parse_resp(buf, pos) ==
    IF pos >= Len(buf) THEN Err("EOF")
    ELSE LET type_byte == buf[pos + 1]
         IN  CASE type_byte = "+" -> parse_simple_string(buf, pos + 1)
               [] type_byte = "-" -> parse_error(buf, pos + 1)
               [] type_byte = ":" -> parse_integer(buf, pos + 1)
               [] type_byte = "$" -> parse_bulk_string(buf, pos + 1)
               [] type_byte = "*" -> parse_array(buf, pos + 1)
               [] OTHER -> Err("Unknown RESP type")

(* main.rs:60: the parser errors the connection loop takes as "no full     *)
(* frame yet"; every other error closes the connection.                    *)
IsIncomplete(r) == ~r.ok /\ ~r.panic /\ (r.err = "Incomplete" \/ r.err = "EOF")

-----------------------------------------------------------------------------
(* The parser fed one frame's bytes a byte at a time, as socket reads that *)
(* deliver the frame in pieces present it to the connection loop.          *)
Texts == {<<>>, <<"a">>, <<"O", "K">>}
Payloads == {<<>>, <<"a">>, <<"a", "b">>, <<CR, LF>>}
Ints == {0, 7, 0 - 1, 0 - 7, 12}
BulkFrames == {BulkString(p) : p \in Payloads}
ArrayFrames ==
    {Array(<<>>)} \cup {Array(<<x>>) : x \in BulkFrames}
        \cup {Array(<<x, y>>) : x \in BulkFrames, y \in BulkFrames}
ValidFrames ==
    {SimpleString(x) : x \in Texts} \cup {SimpleError(x) : x \in Texts}
        \cup {Integer(i) : i \in Ints} \cup BulkFrames \cup {Null} \cup ArrayFrames

(* Encodings no serializer here writes but the framing rules admit *)
OtherEncodings ==
    {<<"*", "-", "1", CR, LF>>, <<":", "+", "7", CR, LF>>, <<"$", "0", "1", CR, LF, "a", CR, LF>>}
ValidEncodings == {serialize(f) : f \in ValidFrames} \cup OtherEncodings

StoreIdle ==
    /\ kv = DbNew /\ now = 0
    /\ last = [t |-> 0, cmd |-> NoCmd, reply |-> Null, pre |-> DbNew]
    /\ hist = [k \in Keys |-> NoHist]

InitParse ==
    /\ pin \in {[n |-> 0, res |-> parse_resp(<<>>, 0), bytes |-> b] : b \in ValidEncodings}
    /\ StoreIdle
    /\ lock = None /\ task = <<>> /\ lin = <<>>
    /\ conn = <<>> /\ net = <<>> /\ sent = <<>> /\ done = <<>> /\ main = <<>>

(* One more byte has arrived; the loop parses the buffer from its head *)
Feed ==
    /\ pin.n < Len(pin.bytes)
    /\ pin' = [pin EXCEPT !.n = pin.n + 1,
                          !.res = parse_resp(SubSeq(pin.bytes, 1, pin.n + 1), 0)]
    /\ UNCHANGED <<storeVars, histVars, lockVars, connVars>>

NextParse == Feed

SpecParse == InitParse /\ [][NextParse]_vars

(* C3: every proper prefix of a valid frame's bytes parses as incomplete,  *)
(* never as a protocol error, and the whole parses as one success that     *)
(* consumes all of it.                                                     *)
C3_PrefixesIncomplete ==
    /\ pin.n < Len(pin.bytes) => IsIncomplete(pin.res)
    /\ pin.n = Len(pin.bytes) => pin.res.ok /\ pin.res.pos = Len(pin.bytes)

(* What the parser does meet on these inputs: the whole frame parses as    *)
(* one success consuming all of it, and no proper prefix is a success.     *)
PrefixesNeverSucceed ==
    /\ pin.n < Len(pin.bytes) => ~pin.res.ok /\ ~pin.res.panic
    /\ pin.n = Len(pin.bytes) => pin.res.ok /\ pin.res.pos = Len(pin.bytes)

-----------------------------------------------------------------------------
(* The parser on whatever bytes a peer sends: the buffer grows by any byte *)
(* of the alphabet and is parsed from its head.                            *)
MaxBuf == 5                \* bytes in the buffer
Alphabet == {"$", "*", ":", "-", "1", "2", "a", CR, LF}

InitBytes ==
    /\ pin = [n |-> 0, res |-> parse_resp(<<>>, 0), bytes |-> <<>>]
    /\ StoreIdle
    /\ lock = None /\ task = <<>> /\ lin = <<>>
    /\ conn = <<>> /\ net = <<>> /\ sent = <<>> /\ done = <<>> /\ main = <<>>

(* One more byte is in the buffer; parse_resp(&mut Cursor::new(&buffer[..])) *)
Arrive ==
    /\ pin.n < MaxBuf
    /\ \E b \in Alphabet :
          pin' = [n |-> pin.n + 1, res |-> parse_resp(Append(pin.bytes, b), 0),
                  bytes |-> Append(pin.bytes, b)]
    /\ UNCHANGED <<storeVars, histVars, lockVars, connVars>>

NextBytes == Arrive

SpecBytes == InitBytes /\ [][NextBytes]_vars

(* The three results of a parse *)
IsSuccess(r) == r.ok
IsProtocolError(r) == ~r.ok /\ ~r.panic /\ ~IsIncomplete(r)

(* C17: on every buffer the parse returns a success, incomplete or a       *)
(* protocol error; it does not abort the task, whatever length or count    *)
(* the bytes announce.                                                     *)
C17_ParseTotal ==
    IsSuccess(pin.res) \/ IsIncomplete(pin.res) \/ IsProtocolError(pin.res)

-----------------------------------------------------------------------------
(* A frame serialized and the bytes parsed back.  Line payloads hold no    *)
(* CRLF but may hold a lone CR or LF; bulk payloads hold any bytes.        *)
MaxArr == 2                \* elements of an Array
Lines == {<<>>, <<"O", "K">>, <<"a", CR>>, <<LF>>}
Atoms ==
    {SimpleString(x) : x \in Lines} \cup {SimpleError(<<"E", "R", "R", " ", "x">>)}
        \cup {Integer(i) : i \in {0, 0 - 12, 345}}
        \cup {BulkString(x) : x \in {<<>>, <<CR, LF>>, <<"a", "b">>}} \cup {Null}
ArraysOf(S) == {Array(a) : a \in UNION {[1..n -> S] : n \in 0..MaxArr}}
Nested ==
    ArraysOf({Null, Integer(0 - 12), Array(<<>>),
              Array(<<BulkString(<<CR, LF>>), SimpleString(<<"O", "K">>)>>)})
Frames == Atoms \cup ArraysOf(Atoms) \cup Nested

InitCodec ==
    /\ pin \in {[pc |-> "built", frame |-> f] : f \in Frames}
    /\ StoreIdle
    /\ lock = None /\ task = <<>> /\ lin = <<>>
    /\ conn = <<>> /\ net = <<>> /\ sent = <<>> /\ done = <<>> /\ main = <<>>

(* frame.serialize() *)
Serialize ==
    /\ pin.pc = "built"
    /\ pin' = [pc |-> "serialized", bytes |-> serialize(pin.frame), frame |-> pin.frame]
    /\ UNCHANGED <<storeVars, histVars, lockVars, connVars>>

(* parse_resp(&mut Cursor::new(&bytes)) *)
Parse ==
    /\ pin.pc = "serialized"
    /\ pin' = [res |-> parse_resp(pin.bytes, 0), pc |-> "parsed", bytes |-> pin.bytes, frame |-> pin.frame]
    /\ UNCHANGED <<storeVars, histVars, lockVars, connVars>>

NextCodec == Serialize \/ Parse

SpecCodec == InitCodec /\ [][NextCodec]_vars

(* C16: parsing the serialized bytes of a frame succeeds, yields the same  *)
(* frame, and leaves the cursor at the end of the bytes.                   *)
C16_RoundTrip ==
    pin.pc = "parsed" =>
        /\ pin.res.ok
        /\ pin.res.value = pin.frame
        /\ pin.res.pos = Len(pin.bytes)

(* An Array holding an Array with a bulk payload of CRLF, and a negative   *)
(* Integer, has come back from its bytes                                   *)
C16_Witness ==
    /\ pin.pc = "parsed"
    /\ pin.frame = Array(<<Array(<<BulkString(<<CR, LF>>), SimpleString(<<"O", "K">>)>>),
                           Integer(0 - 12)>>)
    /\ pin.res.ok /\ pin.res.value = pin.frame

-----------------------------------------------------------------------------
(* commands.rs: validation of a parsed frame as a Command *)
ERR_NOT_ARRAY ==
    <<"C", "o", "m", "m", "a", "n", "d", " ", "m", "u", "s", "t", " ", "b",
      "e", " ", "a", "n", " ", "A", "r", "r", "a", "y">>

ERR_EMPTY ==
    <<"C", "o", "m", "m", "a", "n", "d", " ", "c", "a", "n", "n", "o", "t",
      " ", "b", "e", " ", "e", "m", "p", "t", "y">>

ERR_NAME ==
    <<"C", "o", "m", "m", "a", "n", "d", " ", "n", "a", "m", "e", " ", "m",
      "u", "s", "t", " ", "b", "e", " ", "a", " ", "s", "t", "r", "i", "n",
      "g">>

ERR_UNKNOWN ==
    <<"U", "n", "k", "n", "o", "w", "n", " ", "c", "o", "m", "m", "a", "n",
      "d", ":", " ">>

ERR_ARGS_PREFIX ==
    <<"E", "R", "R", " ", "w", "r", "o", "n", "g", " ", "n", "u", "m", "b",
      "e", "r", " ", "o", "f", " ", "a", "r", "g", "u", "m", "e", "n", "t",
      "s", " ", "f", "o", "r", " ", "'">>

ERR_ARGS_SUFFIX ==
    <<"'", " ", "c", "o", "m", "m", "a", "n", "d">>

ERR_NOT_INTEGER ==
    <<"E", "R", "R", " ", "v", "a", "l", "u", "e", " ", "i", "s", " ", "n",
      "o", "t", " ", "a", "n", " ", "i", "n", "t", "e", "g", "e", "r">>

ERR_SYNTAX ==
    <<"E", "R", "R", " ", "s", "y", "n", "t", "a", "x", " ", "e", "r", "r",
      "o", "r">>

ERR_KEY_BULK ==
    <<"E", "R", "R", " ", "k", "e", "y", " ", "m", "u", "s", "t", " ", "b",
      "e", " ", "a", " ", "b", "u", "l", "k", " ", "s", "t", "r", "i", "n",
      "g">>

ERR_VALUE_BULK ==
    <<"E", "R", "R", " ", "v", "a", "l", "u", "e", " ", "m", "u", "s", "t",
      " ", "b", "e", " ", "b", "u", "l", "k", " ", "s", "t", "r", "i", "n",
      "g">>

LowerCase ==
    <<"a", "b", "c", "d", "e", "f", "g", "h", "i", "j", "k", "l", "m",
      "n", "o", "p", "q", "r", "s", "t", "u", "v", "w", "x", "y", "z">>
UpperCase ==
    <<"A", "B", "C", "D", "E", "F", "G", "H", "I", "J", "K", "L", "M",
      "N", "O", "P", "Q", "R", "S", "T", "U", "V", "W", "X", "Y", "Z">>

(* str::to_uppercase / str::to_lowercase on ASCII text *)
to_uppercase(str) ==
    [i \in 1..Len(str) |->
        IF \E j \in 1..26 : LowerCase[j] = str[i]
        THEN UpperCase[CHOOSE j \in 1..26 : LowerCase[j] = str[i]] ELSE str[i]]
to_lowercase(str) ==
    [i \in 1..Len(str) |->
        IF \E j \in 1..26 : UpperCase[j] = str[i]
        THEN LowerCase[CHOOSE j \in 1..26 : UpperCase[j] = str[i]] ELSE str[i]]

(* Result<Command, String> and Result<String, String> *)
CmdOk(c) == [ok |-> TRUE, cmd |-> c]
CmdErr(msg) == [ok |-> FALSE, err |-> msg]
StrOk(str) == [ok |-> TRUE, str |-> str]

(* format!("ERR wrong number of arguments for '{}' command", cmd_name) *)
WrongArgs(cmd_name) == ERR_ARGS_PREFIX \o cmd_name \o ERR_ARGS_SUFFIX

(* get_bulk_string_value *)
get_bulk_string_value(arg) ==
    IF arg.t = "BulkString" THEN StrOk(arg.s) ELSE CmdErr(ERR_VALUE_BULK)

(* parse_int *)
parse_int(arg) ==
    IF arg.t = "BulkString" /\ ParseI64(arg.s).ok
    THEN [ok |-> TRUE, v |-> ParseI64(arg.s).v]
    ELSE CmdErr(ERR_NOT_INTEGER)

(* parse_echo: only args.get(1) is looked at *)
parse_echo(args) ==
    IF Len(args) >= 2 /\ args[2].t = "BulkString"
    THEN CmdOk(Echo(args[2].s))
    ELSE CmdErr(WrongArgs(<<"e", "c", "h", "o">>))

(* parse_set *)
parse_set(args) ==
    IF Len(args) < 3 THEN CmdErr(WrongArgs(<<"s", "e", "t">>))
    ELSE IF ~get_bulk_string_value(args[2]).ok THEN get_bulk_string_value(args[2])
    ELSE IF ~get_bulk_string_value(args[3]).ok THEN get_bulk_string_value(args[3])
    ELSE IF Len(args) > 3
    THEN IF args[4].t = "BulkString" /\ to_lowercase(args[4].s) = <<"p", "x">>
         THEN IF Len(args) >= 5 /\ args[5].t = "BulkString"
              THEN IF ParseU64(args[5].s).ok
                   THEN CmdOk(Set(args[2].s, args[3].s, Some(ParseU64(args[5].s).v)))
                   ELSE CmdErr(ERR_NOT_INTEGER)
              ELSE CmdErr(ERR_SYNTAX)
         ELSE CmdErr(ERR_SYNTAX)
    ELSE CmdOk(Set(args[2].s, args[3].s, None))

(* parse_get *)
parse_get(args) ==
    IF Len(args) # 2 THEN CmdErr(WrongArgs(<<"g", "e", "t">>))
    ELSE IF ~get_bulk_string_value(args[2]).ok THEN get_bulk_string_value(args[2])
    ELSE CmdOk(Get(args[2].s))

(* parse_push_command asking for a key and no value *)
parse_push_command_NoValue(args, cmd_name) ==
    IF Len(args) < 2 THEN CmdErr(WrongArgs(cmd_name))
    ELSE IF ~get_bulk_string_value(args[2]).ok THEN get_bulk_string_value(args[2])
    ELSE IF \E i \in 3..Len(args) : args[i].t # "BulkString" THEN CmdErr(ERR_VALUE_BULK)
    ELSE [key |-> args[2].s, values |-> [i \in 1..(Len(args) - 2) |-> args[i + 2].s], ok |-> TRUE]

(* parse_push_command: the key and the values, or the first error *)
parse_push_command(args, cmd_name) ==
    IF Len(args) < 3 THEN CmdErr(WrongArgs(cmd_name))
    ELSE IF ~get_bulk_string_value(args[2]).ok THEN get_bulk_string_value(args[2])
    ELSE IF \E i \in 3..Len(args) : args[i].t # "BulkString" THEN CmdErr(ERR_VALUE_BULK)
    ELSE [key |-> args[2].s, values |-> [i \in 1..(Len(args) - 2) |-> args[i + 2].s], ok |-> TRUE]

(* parse_rpush *)
parse_rpush(args) ==
    LET r == parse_push_command(args, <<"r", "p", "u", "s", "h">>)
    IN  IF r.ok THEN CmdOk(RPush(r.key, r.values)) ELSE r

(* parse_lpush *)
parse_lpush(args) ==
    LET r == parse_push_command(args, <<"l", "p", "u", "s", "h">>)
    IN  IF r.ok THEN CmdOk(LPush(r.key, r.values)) ELSE r

(* parse_range *)
parse_range(args) ==
    IF Len(args) # 4 THEN CmdErr(WrongArgs(<<"l", "r", "a", "n", "g", "e">>))
    ELSE IF args[2].t # "BulkString" THEN CmdErr(ERR_KEY_BULK)
    ELSE IF ~parse_int(args[3]).ok THEN parse_int(args[3])
    ELSE IF ~parse_int(args[4]).ok THEN parse_int(args[4])
    ELSE CmdOk(LRange(args[2].s, parse_int(args[3]).v, parse_int(args[4]).v))

(* parse_llen *)
parse_llen(args) ==
    IF Len(args) # 2 THEN CmdErr(WrongArgs(<<"l", "l", "e", "n">>))
    ELSE IF ~get_bulk_string_value(args[2]).ok THEN get_bulk_string_value(args[2])
    ELSE CmdOk(LLen(args[2].s))

(* Command::from_resp *)
from_resp(value) ==
    IF value.t # "Array" THEN CmdErr(ERR_NOT_ARRAY)
    ELSE IF value.a = <<>> THEN CmdErr(ERR_EMPTY)
    ELSE IF value.a[1].t \notin {"SimpleString", "BulkString"} THEN CmdErr(ERR_NAME)
    ELSE LET args == value.a
             command_name == to_uppercase(args[1].s)
         IN  CASE command_name = <<"P", "I", "N", "G">> -> CmdOk(Ping)
               [] command_name = <<"E", "C", "H", "O">> -> parse_echo(args)
               [] command_name = <<"S", "E", "T">> -> parse_set(args)
               [] command_name = <<"G", "E", "T">> -> parse_get(args)
               [] command_name = <<"R", "P", "U", "S", "H">> -> parse_rpush(args)
               [] command_name = <<"L", "P", "U", "S", "H">> -> parse_lpush(args)
               [] command_name = <<"L", "R", "A", "N", "G", "E">> -> parse_range(args)
               [] command_name = <<"L", "L", "E", "N">> -> parse_llen(args)
               [] OTHER -> CmdErr(ERR_UNKNOWN \o command_name)

(* Validation of request arrays: a command name followed by any number of *)
(* bulk-string arguments.                                                  *)
MaxArgs == 6               \* elements of a request array
CommandNames ==
    {<<"P", "I", "N", "G">>, <<"E", "C", "H", "O">>, <<"S", "E", "T">>, <<"G", "E", "T">>,
     <<"R", "P", "U", "S", "H">>, <<"L", "P", "U", "S", "H">>,
     <<"L", "R", "A", "N", "G", "E">>, <<"L", "L", "E", "N">>}
ArgValues == {<<"k">>, <<"p", "x">>, <<"1">>}

InitValidate ==
    /\ pin \in {[pc |-> "args", args |-> <<BulkString(name)>>] : name \in CommandNames}
    /\ StoreIdle
    /\ lock = None /\ task = <<>> /\ lin = <<>>
    /\ conn = <<>> /\ net = <<>> /\ sent = <<>> /\ done = <<>> /\ main = <<>>

(* The request array has one more element *)
AddArg ==
    /\ pin.pc = "args"
    /\ Len(pin.args) < MaxArgs
    /\ \E a \in ArgValues : pin' = [pin EXCEPT !.args = Append(@, BulkString(a))]
    /\ UNCHANGED <<storeVars, histVars, lockVars, connVars>>

(* Command::from_resp(value) *)
Validate ==
    /\ pin.pc = "args"
    /\ pin' = [res |-> from_resp(Array(pin.args)), pc |-> "validated", args |-> pin.args]
    /\ UNCHANGED <<storeVars, histVars, lockVars, connVars>>

NextValidate == AddArg \/ Validate

SpecValidate == InitValidate /\ [][NextValidate]_vars

(* The element counts the commands take *)
InArity(name, n) ==
    CASE name = <<"P", "I", "N", "G">> -> n = 1
      [] name \in {<<"E", "C", "H", "O">>, <<"G", "E", "T">>, <<"L", "L", "E", "N">>} -> n = 2
      [] name = <<"S", "E", "T">> -> n \in {3, 5}
      [] name \in {<<"R", "P", "U", "S", "H">>, <<"L", "P", "U", "S", "H">>} -> n >= 3
      [] name = <<"L", "R", "A", "N", "G", "E">> -> n = 4

(* C18: a request whose element count is outside its command's arity is   *)
(* rejected with that command's wrong-number-of-arguments error, and no    *)
(* Command is built.                                                       *)
C18_ArityValidation ==
    pin.pc = "validated" /\ ~InArity(pin.args[1].s, Len(pin.args)) =>
        /\ ~pin.res.ok
        /\ pin.res.err = WrongArgs(to_lowercase(pin.args[1].s))

(* main.rs:48-53: the reply to a parsed frame, and the store after it.     *)
(* execute runs on the one Db every connection task shares.                *)
Respond(value, s, t) ==
    LET command_result == from_resp(value)
    IN  IF command_result.ok THEN Execute(command_result.cmd, s, t)
        ELSE [kv |-> s, reply |-> SimpleError(command_result.err)]

-----------------------------------------------------------------------------
(* main.rs: process_socket.  A connection task is at the socket read       *)
(* (main.rs:31), at the head of the inner loop (main.rs:44-46), or at the  *)
(* socket write of the reply it has computed (main.rs:55).  The requests   *)
(* carry no PX option, so the clock stands still here; expiry is the       *)
(* business of Spec.                                                       *)
MaxReq == 2                \* request frames a client sends on a connection
TempBufferSize == 1024     \* let mut temp_buffer = [0; 1024]
Conns == {1}

Bulk(str) == BulkString(str)
Requests ==
    {Array(<<Bulk(<<"P", "I", "N", "G">>)>>),
     Array(<<Bulk(<<"s", "e", "t">>), Bulk(<<"k">>), Bulk(<<"a">>)>>),
     Array(<<Bulk(<<"G", "E", "T">>), Bulk(<<"k">>)>>),
     Array(<<Bulk(<<"R", "P", "U", "S", "H">>), Bulk(<<"k">>), Bulk(<<"b">>)>>),
     SimpleString(<<"P", "I", "N", "G">>)}

(* A task that has left process_socket and dropped its socket: by the      *)
(* return after the read ("eof"), by the return after a protocol error, by *)
(* a panic unwinding out of the parser or out of the write, or with the    *)
(* runtime when main() ends ("shutdown").                                  *)
Closed(k, exit) == [pc |-> "closed", exit |-> exit, buffer |-> k.buffer, burst |-> k.burst]

(* How many frames the connections of C have executed so far *)
RECURSIVE Executed(_)
Executed(C) ==
    IF C = {} THEN 0
    ELSE LET c == CHOOSE x \in C : TRUE IN Len(done[c]) + Executed(C \ {c})

InitConn ==
    /\ StoreIdle
    /\ lock = None /\ task = <<>> /\ lin = <<>>
    /\ conn = [c \in Conns |-> [pc |-> "read", buffer |-> <<>>, burst |-> 0]]
    /\ net = [c \in Conns |-> [wire |-> <<>>, out |-> <<>>, read |-> 0]]
    /\ sent = [c \in Conns |-> <<>>]
    /\ done = [c \in Conns |-> <<>>]
    /\ main = [pc |-> "accept", failed |-> 0]
    /\ pin = <<>>

ConnFrame == UNCHANGED <<histVars, lockVars, main, pin>>

(* The client writes one more request frame to its socket *)
ClientSend(c) ==
    /\ Len(sent[c]) < MaxReq
    /\ \E f \in Requests :
          /\ sent' = [sent EXCEPT ![c] = Append(@, f)]
          /\ net' = [net EXCEPT ![c].wire = @ \o serialize(f)]
    /\ UNCHANGED <<storeVars, conn, done>>
    /\ ConnFrame

(* socket.read(&mut temp_buffer) returns Ok(n), n > 0: any non-empty part  *)
(* of what is in flight, at most the temporary buffer's size               *)
Read(c) ==
    /\ conn[c].pc = "read"
    /\ \E n \in 1..Min(Len(net[c].wire), TempBufferSize) :
          /\ conn' = [conn EXCEPT ![c].buffer = @ \o SubSeq(net[c].wire, 1, n),
                                  ![c].pc = "parse",
                                  ![c].burst = 0]
          /\ net' = [net EXCEPT ![c].wire = SubSeq(@, n + 1, Len(@)),
                                ![c].read = @ + n]
    /\ UNCHANGED <<storeVars, sent, done>>
    /\ ConnFrame

(* socket.read returns Ok(0) or Err(e): the task returns *)
ReadEnd(c) ==
    /\ conn[c].pc = "read"
    /\ conn' = [conn EXCEPT ![c] = Closed(conn[c], "eof")]
    /\ UNCHANGED <<storeVars, net, sent, done>>
    /\ ConnFrame

(* parse_resp succeeds: from_resp, execute, and the reply is ready to write *)
ExecuteFrame(c) ==
    /\ conn[c].pc = "parse"
    /\ LET r == parse_resp(conn[c].buffer, 0)
       IN  /\ r.ok
           /\ LET x == Respond(r.value, kv, now)
              IN  /\ kv' = x.kv
                  /\ conn' = [conn EXCEPT ![c] =
                                [len |-> r.pos, pc |-> "write", buffer |-> conn[c].buffer, burst |-> conn[c].burst, response |-> x.reply]]
                  /\ done' = [done EXCEPT ![c] =
                                Append(@, [t |-> now, value |-> r.value, reply |-> x.reply, pre |-> kv, at |-> net[c].read - Len(conn[c].buffer), post |-> x.kv, seq |-> Executed(DOMAIN done)])]
    /\ UNCHANGED <<now, net, sent>>
    /\ ConnFrame

(* parse_resp fails with "Incomplete" or "EOF": break to the socket read *)
Incomplete(c) ==
    /\ conn[c].pc = "parse"
    /\ IsIncomplete(parse_resp(conn[c].buffer, 0))
    /\ conn' = [conn EXCEPT ![c].pc = "read"]
    /\ UNCHANGED <<storeVars, net, sent, done>>
    /\ ConnFrame

(* The bad bytes thrown away and the task back at the socket read *)
ProtocolError_Resyncs(c) ==
    /\ conn[c].pc = "parse"
    /\ ~parse_resp(conn[c].buffer, 0).ok
    /\ ~IsIncomplete(parse_resp(conn[c].buffer, 0))
    /\ conn' = [conn EXCEPT ![c].pc = "read", ![c].buffer = <<>>]
    /\ UNCHANGED <<storeVars, net, sent, done>>
    /\ ConnFrame

(* parse_resp fails with any other error (logged as a protocol error) or   *)
(* panics: the task ends and the socket is dropped                         *)
ProtocolError(c) ==
    /\ conn[c].pc = "parse"
    /\ ~parse_resp(conn[c].buffer, 0).ok
    /\ ~IsIncomplete(parse_resp(conn[c].buffer, 0))
    /\ conn' = [conn EXCEPT ![c] =
                  Closed(conn[c], IF parse_resp(conn[c].buffer, 0).panic
                                  THEN "parse panic" ELSE "protocol")]
    /\ UNCHANGED <<storeVars, net, sent, done>>
    /\ ConnFrame

(* The reply written, but the parsed bytes left in the buffer *)
Write_NoDrain(c) ==
    /\ conn[c].pc = "write"
    /\ net' = [net EXCEPT ![c].out = Append(@, serialize(conn[c].response))]
    /\ conn' = [conn EXCEPT ![c] =
                  [pc |-> "parse", buffer |-> conn[c].buffer,
                   burst |-> conn[c].burst + 1]]
    /\ UNCHANGED <<storeVars, sent, done>>
    /\ ConnFrame

(* The reply written and the bytes drained, then straight back to the read *)
Write_BreaksLoop(c) ==
    /\ conn[c].pc = "write"
    /\ net' = [net EXCEPT ![c].out = Append(@, serialize(conn[c].response))]
    /\ conn' = [conn EXCEPT ![c] =
                  [pc |-> "read",
                   buffer |-> SubSeq(conn[c].buffer, conn[c].len + 1, Len(conn[c].buffer)),
                   burst |-> conn[c].burst + 1]]
    /\ UNCHANGED <<storeVars, sent, done>>
    /\ ConnFrame

(* The reply written, and the task returns when the reply is an error *)
Write_ErrorCloses(c) ==
    /\ conn[c].pc = "write"
    /\ net' = [net EXCEPT ![c].out = Append(@, serialize(conn[c].response))]
    /\ conn' = [conn EXCEPT ![c] =
                  IF conn[c].response.t = "SimpleError" THEN Closed(conn[c], "eof")
                  ELSE [pc |-> "parse",
                        buffer |-> SubSeq(conn[c].buffer, conn[c].len + 1, Len(conn[c].buffer)),
                        burst |-> conn[c].burst + 1]]
    /\ UNCHANGED <<storeVars, sent, done>>
    /\ ConnFrame

(* socket.write_all(&response.serialize()) succeeds; buffer.drain(0..len); *)
(* the inner loop goes round                                               *)
Write(c) ==
    /\ conn[c].pc = "write"
    /\ net' = [net EXCEPT ![c].out = Append(@, serialize(conn[c].response))]
    /\ conn' = [conn EXCEPT ![c] =
                  [pc |-> "parse",
                   buffer |-> SubSeq(conn[c].buffer, conn[c].len + 1, Len(conn[c].buffer)),
                   burst |-> conn[c].burst + 1]]
    /\ UNCHANGED <<storeVars, sent, done>>
    /\ ConnFrame

(* The write fails and the panic takes the whole process down *)
WriteFail_Aborts(c) ==
    /\ conn[c].pc = "write"
    /\ conn' = [d \in DOMAIN conn |->
                  IF conn[d].pc \in {"read", "parse", "write"}
                  THEN Closed(conn[d], "shutdown") ELSE conn[d]]
    /\ main' = [main EXCEPT !.pc = "panicked"]
    /\ UNCHANGED <<storeVars, net, sent, done>>
    /\ UNCHANGED <<histVars, lockVars, pin>>

(* socket.write_all fails: unwrap() panics and the task ends *)
WriteFail(c) ==
    /\ conn[c].pc = "write"
    /\ conn' = [conn EXCEPT ![c] = Closed(conn[c], "write panic")]
    /\ UNCHANGED <<storeVars, net, sent, done>>
    /\ ConnFrame

NextConn ==
    \/ \E c \in Conns : ClientSend(c)
    \/ \E c \in Conns : Read(c)
    \/ \E c \in Conns : ReadEnd(c)
    \/ \E c \in Conns : ExecuteFrame(c)
    \/ \E c \in Conns : Incomplete(c)
    \/ \E c \in Conns : ProtocolError(c)
    \/ \E c \in Conns : Write(c)
    \/ \E c \in Conns : WriteFail(c)

SpecConn == InitConn /\ [][NextConn]_vars

(* The bytes of the request frames from the i-th on *)
RECURSIVE BytesFrom(_, _)
BytesFrom(frames, i) ==
    IF i > Len(frames) THEN <<>> ELSE serialize(frames[i]) \o BytesFrom(frames, i + 1)

(* C2: on a connection the i-th frame executed is the i-th request frame   *)
(* sent, its reply is the reply to that request on the store of that       *)
(* moment, and the i-th reply written is that reply, however the request   *)
(* bytes were split over the socket reads.                                 *)
C2_RepliesInOrder ==
    \A c \in Conns :
        /\ Len(done[c]) <= Len(sent[c])
        /\ Len(net[c].out) <= Len(done[c])
        /\ Len(done[c]) <= Len(net[c].out) + 1
        /\ \A i \in 1..Len(done[c]) :
              /\ done[c][i].value = sent[c][i]
              /\ done[c][i].reply = Respond(sent[c][i], done[c][i].pre, done[c][i].t).reply
        /\ \A i \in 1..Len(net[c].out) :
              net[c].out[i] = serialize(done[c][i].reply)

(* Two different requests have been answered on a connection *)
C2_Witness ==
    \E c \in Conns :
        /\ Len(net[c].out) = 2
        /\ sent[c][1] # sent[c][2]
        /\ net[c].out[1] # net[c].out[2]

(* C10: the task is at the socket read only when the buffer head holds no  *)
(* complete frame, and every success has consumed exactly its own bytes:   *)
(* what is buffered and in flight is the bytes of the unanswered requests. *)
C10_Pipelining ==
    \A c \in Conns :
        /\ conn[c].pc = "read" => ~parse_resp(conn[c].buffer, 0).ok
        /\ conn[c].pc \in {"read", "parse", "write"} =>
              conn[c].buffer \o net[c].wire = BytesFrom(sent[c], Len(net[c].out) + 1)

(* Two frames that arrived in one read have both been answered, with no    *)
(* read in between                                                          *)
C10_Witness ==
    \E c \in Conns : conn[c].burst = 2 /\ Len(net[c].out) = 2

(* The bytes of the first request frame not yet executed, and whether the  *)
(* buffer holds less than all of them                                      *)
HeadFrame(c) ==
    IF Len(done[c]) < Len(sent[c]) THEN serialize(sent[c][Len(done[c]) + 1]) ELSE <<>>
HeadPartial(c) == conn[c].buffer = <<>> \/ Len(conn[c].buffer) < Len(HeadFrame(c))

IncompleteHasNoEffect ==
    \A c \in DOMAIN conn :
        /\ conn[c].pc = "parse" /\ HeadPartial(c) /\ conn'[c] # conn[c] =>
              /\ conn'[c] = [conn[c] EXCEPT !.pc = "read"]
              /\ net'[c].out = net[c].out
              /\ done' = done /\ kv' = kv
        /\ conn[c].pc = "read" /\ conn'[c].pc = "parse" =>
              \E n \in 1..Len(net[c].wire) :
                  conn'[c].buffer = conn[c].buffer \o SubSeq(net[c].wire, 1, n)

(* C19: when the buffer head holds less than a full frame the attempt ends *)
(* at the socket read with the buffer as it was, nothing written and       *)
(* nothing executed, and the next attempt parses that buffer with the      *)
(* bytes of the next read appended.                                        *)
C19_IncompleteNoEffect == [][IncompleteHasNoEffect]_vars

(* Where in the byte stream of connection c its i-th request frame starts *)
FrameStart(c, i) == Len(BytesFrom(sent[c], 1)) - Len(BytesFrom(sent[c], i))

(* C20: the i-th execution on a connection is of the frame at the i-th     *)
(* frame's place in the stream, so no place is executed twice and no frame *)
(* more than once, and there is at most one reply per execution, however   *)
(* the stream was cut over the reads.                                      *)
C20_AtMostOnce ==
    \A c \in DOMAIN done :
        /\ Len(done[c]) <= Len(sent[c])
        /\ \A i \in 1..Len(done[c]) : done[c][i].at = FrameStart(c, i)
        /\ \A i, j \in 1..Len(done[c]) : i < j => done[c][i].at < done[c][j].at
        /\ Len(net[c].out) <= Len(done[c])

(* One frame has been executed and answered; the head of the next is in    *)
(* the buffer after an attempt that found it incomplete, the rest still to *)
(* be read                                                                 *)
C20_Witness ==
    \E c \in DOMAIN done :
        /\ Len(done[c]) = 1 /\ Len(net[c].out) = 1
        /\ conn[c].pc = "read" /\ conn[c].buffer # <<>> /\ net[c].wire # <<>>

-----------------------------------------------------------------------------
(* main.rs: requests that fail.  The client sends frames that validation  *)
(* rejects, commands that meet the wrong kind of value, and bytes that are *)
(* no frame.  How the stream is cut over the reads is the business of      *)
(* SpecConn; here a read returns what has arrived.                         *)
MaxMsgs == 2               \* messages the clients send, all together

(* Frames that Command::from_resp rejects, by the reason *)
NotAnArray == SimpleString(<<"P", "I", "N", "G">>)
EmptyArray == Array(<<>>)
NameNotString == Array(<<Integer(1)>>)
UnknownCommand == Array(<<Bulk(<<"x">>)>>)
WrongArity == Array(<<Bulk(<<"g", "e", "t">>)>>)
BadArgument == Array(<<Bulk(<<"g", "e", "t">>), Integer(1)>>)
UserErrorFrames ==
    {NotAnArray, EmptyArray, NameNotString, UnknownCommand, WrongArity, BadArgument}

(* Commands; the second meets the wrong kind of value after the first, the *)
(* third after the second on a fresh key                                   *)
CommandFrames ==
    {Array(<<Bulk(<<"s", "e", "t">>), Bulk(<<"k">>), Bulk(<<"a">>)>>),
     Array(<<Bulk(<<"R", "P", "U", "S", "H">>), Bulk(<<"k">>), Bulk(<<"b">>)>>),
     Array(<<Bulk(<<"G", "E", "T">>), Bulk(<<"k">>)>>)}

(* Bytes that are no frame: a bad type byte, a length and an integer that  *)
(* are no number, a bulk payload not followed by CRLF                      *)
InvalidFrames ==
    {<<"?", CR, LF>>,
     <<"$", "x", CR, LF>>,
     <<"*", "x", CR, LF>>,
     <<":", "x", CR, LF>>,
     <<"$", "1", CR, LF, "a", "b", "c">>}

Messages == {serialize(f) : f \in UserErrorFrames \cup CommandFrames} \cup InvalidFrames

ServerFrame == UNCHANGED <<histVars, lockVars, pin>>

RECURSIVE Sent(_)
Sent(C) ==
    IF C = {} THEN 0
    ELSE LET c == CHOOSE x \in C : TRUE IN Len(sent[c]) + Sent(C \ {c})

(* A client writes the bytes of one message of M to its socket *)
Send(c, M) ==
    /\ Sent(DOMAIN sent) < MaxMsgs
    /\ \E m \in M :
          /\ sent' = [sent EXCEPT ![c] = Append(@, m)]
          /\ net' = [net EXCEPT ![c].wire = @ \o m]
    /\ UNCHANGED <<storeVars, conn, done, main>>
    /\ ServerFrame

(* socket.read(&mut temp_buffer) returns Ok(n) with everything that has    *)
(* arrived, up to the temporary buffer's size                              *)
ReadAll(c) ==
    /\ conn[c].pc = "read"
    /\ net[c].wire # <<>>
    /\ LET n == Min(Len(net[c].wire), TempBufferSize)
       IN  /\ conn' = [conn EXCEPT ![c].buffer = @ \o SubSeq(net[c].wire, 1, n),
                                   ![c].pc = "parse",
                                   ![c].burst = 0]
           /\ net' = [net EXCEPT ![c].wire = SubSeq(@, n + 1, Len(@)),
                                 ![c].read = @ + n]
    /\ UNCHANGED <<storeVars, sent, done>>
    /\ ConnFrame

NextErr ==
    \/ \E c \in Conns : Send(c, Messages)
    \/ \E c \in Conns : ReadAll(c)
    \/ \E c \in Conns : ReadEnd(c)
    \/ \E c \in Conns : ExecuteFrame(c)
    \/ \E c \in Conns : Incomplete(c)
    \/ \E c \in Conns : ProtocolError(c)
    \/ \E c \in Conns : Write(c)
    \/ \E c \in Conns : WriteFail(c)

SpecErr == InitConn /\ [][NextErr]_vars

(* An executed frame that validation rejected, or whose command met a      *)
(* value of the other kind                                                 *)
Rejected(d) == ~from_resp(d.value).ok
HitsWrongType(d) ==
    /\ from_resp(d.value).ok
    /\ LET cmd == from_resp(d.value).cmd
       IN  \/ cmd.name \in {"RPush", "LPush", "LRange", "LLen"} /\ HeldString(d.pre, cmd.key)
           \/ cmd.name = "Get" /\ HeldList(d.pre, cmd.key)
UserError(d) == Rejected(d) \/ HitsWrongType(d)

(* Where in the byte stream of connection c its i-th message starts, and   *)
(* how many bytes of the stream the task has drained from its buffer       *)
MsgStart(c, i) == Len(Concat(SubSeq(sent[c], 1, i - 1)))
Drained(c) == net[c].read - Len(conn[c].buffer)

UserErrorsAnswered ==
    \A c \in DOMAIN done :
        /\ Len(net[c].out) <= Len(done[c])
        /\ Len(done[c]) <= Len(net[c].out) + 1
        /\ \A i \in 1..Len(done[c]) :
              LET d == done[c][i]
              IN  /\ d.value \in UserErrorFrames => Rejected(d)
                  /\ UserError(d) =>
                        /\ d.reply.t = "SimpleError"
                        /\ d.post = d.pre
                        /\ i <= Len(net[c].out) => net[c].out[i] = serialize(d.reply)

UserErrorsGoOn ==
    \A c \in DOMAIN done :
        Len(net'[c].out) = Len(net[c].out) + 1 /\ UserError(done[c][Len(net'[c].out)]) =>
            /\ conn'[c].pc = "parse"
            /\ Drained(c)' = done[c][Len(net'[c].out)].at + conn[c].len

(* C11: a frame that fails validation, or whose command meets a value of   *)
(* the wrong kind, gets exactly one reply, a SimpleError, on its own       *)
(* connection; the store after it is the store before it; and the write of *)
(* that reply leaves the task in its loop at the bytes after the frame.    *)
C11_UserErrorsKeepOpen == []UserErrorsAnswered /\ [][UserErrorsGoOn]_vars

(* A rejected frame has been answered and a later command on the same      *)
(* connection has been executed and answered without an error              *)
C11_Witness ==
    \E c \in DOMAIN done :
        /\ Len(net[c].out) = 2
        /\ Rejected(done[c][1])
        /\ done[c][2].reply.t # "SimpleError"

(* C12: once the bytes of an invalid frame have been read, nothing is      *)
(* executed at or after its place in the stream, no reply is written for   *)
(* it, and when the frames before it are answered the task is at the parse *)
(* that rejects it or has ended, the bad bytes still at the buffer head.   *)
C12_ProtocolErrorCloses ==
    \A c \in DOMAIN sent :
        \A i \in 1..Len(sent[c]) :
            sent[c][i] \in InvalidFrames /\ net[c].read >= MsgStart(c, i + 1) =>
                /\ \A j \in 1..Len(done[c]) : done[c][j].at < MsgStart(c, i)
                /\ Len(net[c].out) <= i - 1
                /\ Len(net[c].out) = i - 1 =>
                      /\ conn[c].pc \in {"parse", "closed"}
                      /\ Drained(c) = MsgStart(c, i)

(* A command was answered, then the invalid frame behind it ended the task *)
C12_Witness ==
    \E c \in DOMAIN sent :
        /\ Len(sent[c]) = 2 /\ sent[c][2] \in InvalidFrames
        /\ Len(net[c].out) = 1 /\ Len(done[c]) = 1
        /\ conn[c].pc = "closed" /\ conn[c].exit = "protocol"

-----------------------------------------------------------------------------
(* main.rs: main() and the connection tasks it spawns: two clients and the *)
(* accept loop.                                                            *)
Clients == {1, 2}
ServerMessages ==
    {serialize(Array(<<Bulk(<<"s", "e", "t">>), Bulk(<<"k">>), Bulk(<<"a">>)>>)),
     serialize(Array(<<Bulk(<<"G", "E", "T">>), Bulk(<<"k">>)>>)),
     <<"?", CR, LF>>}

InitServer ==
    /\ StoreIdle
    /\ lock = None /\ task = <<>> /\ lin = <<>>
    /\ conn = [c \in Clients |-> [pc |-> "pending", buffer |-> <<>>, burst |-> 0]]
    /\ net = [c \in Clients |-> [wire |-> <<>>, out |-> <<>>, read |-> 0]]
    /\ sent = [c \in Clients |-> <<>>]
    /\ done = [c \in Clients |-> <<>>]
    /\ main = [pc |-> "accept", failed |-> 0]
    /\ pin = <<>>

(* main.rs:19-22: listener.accept() returns a socket and main spawns the   *)
(* task that runs process_socket on it                                     *)
Accept(c) ==
    /\ main.pc = "accept"
    /\ conn[c].pc = "pending"
    /\ conn' = [conn EXCEPT ![c].pc = "read"]
    /\ UNCHANGED <<storeVars, net, sent, done, main>>
    /\ ServerFrame

(* main.rs:19: listener.accept() returns Err and unwrap() panics in main:  *)
(* the runtime is dropped with every task it runs and the process ends     *)
AcceptFail ==
    /\ main.pc = "accept"
    /\ main' = [pc |-> "panicked", failed |-> main.failed + 1]
    /\ conn' = [c \in Clients |->
                  IF conn[c].pc \in {"read", "parse", "write"}
                  THEN Closed(conn[c], "shutdown") ELSE conn[c]]
    /\ UNCHANGED <<storeVars, net, sent, done>>
    /\ ServerFrame

NextServer ==
    \/ \E c \in Clients : Send(c, ServerMessages)
    \/ \E c \in Clients : Accept(c)
    \/ AcceptFail
    \/ \E c \in Clients : ReadAll(c)
    \/ \E c \in Clients : ReadEnd(c)
    \/ \E c \in Clients : ExecuteFrame(c)
    \/ \E c \in Clients : Incomplete(c)
    \/ \E c \in Clients : ProtocolError(c)
    \/ \E c \in Clients : Write(c)
    \/ \E c \in Clients : WriteFail(c)

SpecServer == InitServer /\ [][NextServer]_vars

(* C13: after listener.accept() has failed the accept loop is accepting    *)
(* again and no connection task has gone down with it.                     *)
C13_AcceptLoopSurvives ==
    main.failed > 0 =>
        /\ main.pc = "accept"
        /\ \A c \in DOMAIN conn : conn[c].pc = "closed" => conn[c].exit # "shutdown"

(* Every executed frame, as connection and index in its log *)
Log == {e \in (DOMAIN done) \X (1..MaxMsgs) : e[2] <= Len(done[e[1]])}
LogEntry(e) == done[e[1]][e[2]]

(* The store is what the executed commands made of it, one after another   *)
StoreIsLogResult ==
    /\ \A e \in Log :
          IF LogEntry(e).seq = 0 THEN LogEntry(e).pre = DbNew
          ELSE \E f \in Log : LogEntry(f).seq = LogEntry(e).seq - 1 /\ LogEntry(f).post = LogEntry(e).pre
    /\ IF Log = {} THEN kv = DbNew
       ELSE \E e \in Log : LogEntry(e).seq = Cardinality(Log) - 1 /\ LogEntry(e).post = kv

(* The task of c ended in a panic with its last reply unwritten *)
WriteFailed(c) ==
    /\ conn[c].pc = "closed" /\ conn[c].exit = "write panic"
    /\ Len(done[c]) = Len(net[c].out) + 1

(* C14: a reply that was computed and not written leaves its task at the   *)
(* write or ended, never further on; the store is the result of the        *)
(* executed commands whether their replies were written or not; a task     *)
(* ends in a write panic only over its own write, tasks are shut down and  *)
(* the accept loop stops only through a failed accept.                     *)
C14_WriteFailureIsolated ==
    /\ \A c \in DOMAIN conn :
          /\ Len(done[c]) = Len(net[c].out) + 1 => conn[c].pc \in {"write", "closed"}
          /\ conn[c].pc = "closed" /\ conn[c].exit = "write panic" => WriteFailed(c)
          /\ conn[c].pc = "closed" /\ conn[c].exit = "shutdown" => main.failed > 0
    /\ main.pc # "accept" => main.failed > 0
    /\ StoreIsLogResult

(* One connection's write has failed after its command changed the store;  *)
(* the other connection was accepted, and its command, executed later, has *)
(* been answered; the accept loop is still accepting.                      *)
C14_Witness ==
    \E c, d \in DOMAIN conn :
        /\ c # d /\ WriteFailed(c)
        /\ done[c][Len(done[c])].post # done[c][Len(done[c])].pre
        /\ Len(net[d].out) = 1
        /\ done[d][1].seq > done[c][Len(done[c])].seq
        /\ main.pc = "accept"

-----------------------------------------------------------------------------
(* Push requests from validation to the store: a client's RPUSH or LPUSH   *)
(* array goes through Command::from_resp and, when accepted, through       *)
(* Command::execute; SET, GET and the clock make the entries the pushes    *)
(* meet.                                                                   *)
RPUSH == <<"R", "P", "U", "S", "H">>
LPUSH == <<"L", "P", "U", "S", "H">>
PushArgs == UNION {[1..n -> Vals] : n \in 0..MaxPush}
PushFrame(name, key, values) ==
    Array(<<BulkString(name), BulkString(key)>>
              \o [i \in 1..Len(values) |-> BulkString(values[i])])
PushFrames == {PushFrame(n, k, vs) : n \in {RPUSH, LPUSH}, k \in Keys, vs \in PushArgs}

(* main.rs:48-53 on a push request: validation, then the command *)
PushRequest(value) ==
    \E command_result \in {from_resp(value)}, r \in {Respond(value, kv, now)} :
        /\ command_result.ok => Room(command_result.cmd.key, command_result.cmd.values)
        /\ kv' = r.kv
        /\ last' = [t |-> now,
                    cmd |-> IF command_result.ok THEN command_result.cmd ELSE NoCmd,
                    reply |-> r.reply, pre |-> kv]
        /\ hist' = IF command_result.ok
                   THEN HistAfter(hist, command_result.cmd, now, r.reply)
                   ELSE hist
        /\ UNCHANGED <<now, lockVars, connVars, pin>>

ExecPush == \E value \in PushFrames : PushRequest(value)

NextPush ==
    \/ ExecPush
    \/ ExecSet
    \/ ExecGet
    \/ Tick

SpecPush == Init /\ [][NextPush]_vars

(* The store as the push sees it: Db::rpush looks at the entry in the map, *)
(* LPUSH drops an entry whose deadline has passed first.                   *)
PushSees(cmd, s, t) ==
    IF cmd.name = "LPush" /\ Expired(s, cmd.key, t) THEN Remove(s, cmd.key) ELSE s

(* C21: every RPUSH or LPUSH that validation lets through carries at least *)
(* one value; its reply is WRONGTYPE exactly when the key holds a value    *)
(* that is not a list, and otherwise Integer n, n >= 1, where n is the     *)
(* length of the list after the push, the old length plus the values.      *)
C21_PushSentinel ==
    LastIs({"RPush", "LPush"}) =>
        LET c == last.cmd
            seen == PushSees(c, last.pre, last.t)
            nonlist == Contains(seen, c.key) /\ seen[c.key].val.type # "List"
            old == IF HeldList(seen, c.key) THEN Len(seen[c.key].val.l) ELSE 0
        IN  /\ Len(c.values) >= 1
            /\ last.reply = WrongType <=> nonlist
            /\ ~nonlist =>
                  /\ HeldList(kv, c.key)
                  /\ Len(kv[c.key].val.l) = old + Len(c.values)
                  /\ Len(kv[c.key].val.l) >= 1
                  /\ last.reply = Integer(Len(kv[c.key].val.l))

(* A push of one value on an absent key has just been answered Integer 1, *)
(* the smallest length a validated push can report                         *)
C21_Witness ==
    /\ LastIs({"RPush", "LPush"})
    /\ ~Contains(last.pre, last.cmd.key)
    /\ Len(last.cmd.values) = 1
    /\ last.reply = Integer(1)

(* C22: a List entry has no deadline, and an entry with a deadline is the  *)
(* String of the last SET .. PX on its key; RPUSH makes a list without     *)
(* deadline on an absent key and leaves the deadline and the variant of an *)
(* entry as they were; under no command but SET does an entry that stays   *)
(* in the store change variant (LPUSH on an entry past its deadline        *)
(* removes it and inserts a new one).                                      *)
C22_VariantAndDeadline ==
    /\ \A k \in Keys :
          Contains(kv, k) =>
              /\ kv[k].val.type = "List" => kv[k].exp = None
              /\ IsSome(kv[k].exp) =>
                    /\ IsSome(hist[k].px)
                    /\ kv[k] = Entry(StringT(Unwrap(hist[k].px).v),
                                     Some(Unwrap(hist[k].px).t0 + Unwrap(hist[k].px).T))
    /\ LastIs({"RPush"}) =>
          LET k == last.cmd.key
          IN  /\ Contains(kv, k)
              /\ IF Contains(last.pre, k)
                 THEN /\ kv[k].exp = last.pre[k].exp
                      /\ kv[k].val.type = last.pre[k].val.type
                 ELSE kv[k].val.type = "List" /\ kv[k].exp = None
    /\ ~LastIs({"Set"}) =>
          \A k \in Keys :
              /\ Contains(last.pre, k) /\ Contains(kv, k)
              /\ ~(LastIs({"LPush"}) /\ Expired(last.pre, k, last.t))
              => kv[k].val.type = last.pre[k].val.type

(* An RPUSH has just met a String whose deadline has passed and left the   *)
(* entry, its deadline included, as it was                                 *)
C22_Witness ==
    /\ LastIs({"RPush"})
    /\ HeldString(last.pre, last.cmd.key)
    /\ Expired(last.pre, last.cmd.key, last.t)
    /\ kv = last.pre

====
